---------------------------- MODULE Spec2Model ----------------------------
(***************************************************************************)
(* A model of the vanilla-orderbook matching engine: the PriceLevel        *)
(* ordering of src/src/lib.rs and the OrderBook of src/src/orderbook.rs.   *)
(*                                                                         *)
(* The book is the pair of ordered maps buy_side and sell_side.  A         *)
(* BTreeMap<PriceLevel, VecDeque<Order>> is a function from the set of its *)
(* keys to sequences of orders; the key order is never stored, it is       *)
(* recomputed from cmp whenever the code asks for the first key or looks a *)
(* key up.  place_order is one atomic step (the code takes &mut self and   *)
(* never yields); its loops are the recursive operators below.             *)
(***************************************************************************)
EXTENDS Integers, Sequences, FiniteSets, TLC

VARIABLES
    buy_side,   \* OrderBook.buy_side
    sell_side,  \* OrderBook.sell_side
    call,       \* the arguments of the last place_order call, << >> before the first
    trades,     \* the Vec<Trade> the last place_order call returned
    history     \* the calls made so far (recorded by SpecScenario only)

vars == <<buy_side, sell_side, call, trades, history>>

---------------------------------------------------------------------------
(* Bounds of the model.                                                    *)

\* u64 is modelled U64Bits wide: quantities and prices live in 0..U64Max.
U64Bits == 7
U64Max == 2^U64Bits - 1

\* A call is explored only if it leaves at most MaxResting orders resting.
MaxResting == 2

\* The inputs of Spec.  Price 0 is a real price; ids repeat freely; the
\* clock reading (milliseconds since the epoch) is stored and never read.
Prices == {0, 1, 2}
Ids == {1, 2}
Times == {0}
\* Quantities come in quarters of the u64 range, so that the quantities
\* resting at one level can add up to more than U64Max.
QtyUnit == 2^(U64Bits - 2)
Quantities == {0, QtyUnit, 2 * QtyUnit}

---------------------------------------------------------------------------
(* Types of src/src/lib.rs.                                                *)

Buy == "Buy"
Sell == "Sell"
Side == {Buy, Sell}

\* Option<T>: None is the empty tuple, Some(v) the one-element tuple.
None == << >>
Some(v) == <<v>>

Order(id, price, quantity, timestamp) ==
    [id |-> id, price |-> price, quantity |-> quantity, timestamp |-> timestamp]

Trade(price, quantity, maker_id, taker_id) ==
    [price |-> price, quantity |-> quantity, maker_id |-> maker_id, taker_id |-> taker_id]

PriceLevel(price, side) == [price |-> price, side |-> side]

\* u64::cmp
U64Cmp(a, b) == IF a < b THEN "Less" ELSE IF a = b THEN "Equal" ELSE "Greater"

\* cmp without the inversion for the buy side: ascending price on both sides.
cmp_natural(self, other) == U64Cmp(self.price, other.price)

\* impl Ord for PriceLevel: the side of self alone picks the direction.
cmp(self, other) ==
    IF self.side = Buy
    THEN U64Cmp(other.price, self.price)
    ELSE U64Cmp(self.price, other.price)

---------------------------------------------------------------------------
(* BTreeMap<PriceLevel, VecDeque<Order>> as used by the book.              *)

EmptyMap == [k \in {} |-> << >>]

\* BTreeMap::first_key_value: the key no other key is smaller than.
first_key_value(map) ==
    IF DOMAIN map = {}
    THEN None
    ELSE LET k == CHOOSE k \in DOMAIN map :
                    \A o \in DOMAIN map : cmp(k, o) # "Greater"
         IN  Some(<<k, map[k]>>)

\* The stored key a lookup of `key` lands on: the one that compares Equal.
find_key(map, key) ==
    IF \E k \in DOMAIN map : cmp(key, k) = "Equal"
    THEN Some(CHOOSE k \in DOMAIN map : cmp(key, k) = "Equal")
    ELSE None

\* BTreeMap::get
get(map, key) ==
    LET f == find_key(map, key)
    IN  IF f = None THEN None ELSE Some(map[f[1]])

\* The map with the queue stored under key k replaced by orders.
set_queue(map, k, orders) ==
    [x \in DOMAIN map \cup {k} |-> IF x = k THEN orders ELSE map[x]]

\* BTreeMap::remove
remove(map, key) ==
    LET f == find_key(map, key)
    IN  IF f = None THEN map ELSE [x \in DOMAIN map \ {f[1]} |-> map[x]]

\* entry(key).or_default() followed by push_front instead of push_back.
entry_or_default_push_front(map, key, order) ==
    LET f == find_key(map, key)
    IN  IF f = None
        THEN set_queue(map, key, <<order>>)
        ELSE set_queue(map, f[1], <<order>> \o map[f[1]])

\* insert(key, [order]) instead of entry(key).or_default().push_back(order):
\* the queue already at the key is replaced.
entry_replace(map, key, order) ==
    LET f == find_key(map, key)
    IN  IF f = None
        THEN set_queue(map, key, <<order>>)
        ELSE set_queue(map, f[1], <<order>>)

\* map.entry(key).or_default().push_back(order)
entry_or_default_push_back(map, key, order) ==
    LET f == find_key(map, key)
    IN  IF f = None
        THEN set_queue(map, key, <<order>>)
        ELSE set_queue(map, f[1], Append(map[f[1]], order))

---------------------------------------------------------------------------
(* OrderBook of src/src/orderbook.rs.  `self` is the record of the two     *)
(* maps; an operator that takes &mut self returns the new record.          *)

OrderBook(buy, sell) == [buy_side |-> buy, sell_side |-> sell]

\* #[derive(Default)]: both maps empty.
Default == OrderBook(EmptyMap, EmptyMap)

Min(a, b) == IF a <= b THEN a ELSE b

\* The fill loop forgetting `front_order.quantity -= trade_qty`: a maker
\* filled in part keeps its whole quantity.
RECURSIVE fill_queue_maker_untouched(_, _, _, _, _)
fill_queue_maker_untouched(orders, qty, price, taker_id, trs) ==
    IF qty > 0 /\ orders # << >>
    THEN LET front_order == Head(orders)
             trade_qty == Min(qty, front_order.quantity)
             pushed == Append(trs, Trade(price, trade_qty, front_order.id, taker_id))
             left == front_order.quantity - trade_qty
             rest == IF left = 0 THEN Tail(orders) ELSE orders
         IN  fill_queue_maker_untouched(rest, qty - trade_qty, price, taker_id, pushed)
    ELSE [orders |-> orders, qty |-> qty, trades |-> trs]

\* The fill loop leaving as soon as the taker is filled, before the
\* `front_order.quantity == 0` test: a maker filled exactly stays in front.
RECURSIVE fill_queue_break_before_pop(_, _, _, _, _)
fill_queue_break_before_pop(orders, qty, price, taker_id, trs) ==
    IF qty > 0 /\ orders # << >>
    THEN LET front_order == Head(orders)
             trade_qty == Min(qty, front_order.quantity)
             pushed == Append(trs, Trade(price, trade_qty, front_order.id, taker_id))
             left == front_order.quantity - trade_qty
             rest == IF left = 0 /\ qty - trade_qty > 0
                     THEN Tail(orders)
                     ELSE <<[front_order EXCEPT !.quantity = left]>> \o Tail(orders)
         IN  fill_queue_break_before_pop(rest, qty - trade_qty, price, taker_id, pushed)
    ELSE [orders |-> orders, qty |-> qty, trades |-> trs]

\* The fill loop with self-trade prevention: a maker carrying the taker's
\* id is dropped from the queue without a trade.
RECURSIVE fill_queue_no_self_trade(_, _, _, _, _)
fill_queue_no_self_trade(orders, qty, price, taker_id, trs) ==
    IF qty > 0 /\ orders # << >>
    THEN LET front_order == Head(orders)
             trade_qty == Min(qty, front_order.quantity)
             pushed == Append(trs, Trade(price, trade_qty, front_order.id, taker_id))
             left == front_order.quantity - trade_qty
             rest == IF left = 0
                     THEN Tail(orders)
                     ELSE <<[front_order EXCEPT !.quantity = left]>> \o Tail(orders)
         IN  IF front_order.id = taker_id
             THEN fill_queue_no_self_trade(Tail(orders), qty, price, taker_id, trs)
             ELSE fill_queue_no_self_trade(rest, qty - trade_qty, price, taker_id, pushed)
    ELSE [orders |-> orders, qty |-> qty, trades |-> trs]

\* The fill loop trading one QtyUnit at a time instead of the whole minimum.
RECURSIVE fill_queue_unit_lots(_, _, _, _, _)
fill_queue_unit_lots(orders, qty, price, taker_id, trs) ==
    IF qty > 0 /\ orders # << >>
    THEN LET front_order == Head(orders)
             trade_qty == Min(Min(qty, front_order.quantity), QtyUnit)
             pushed == Append(trs, Trade(price, trade_qty, front_order.id, taker_id))
             left == front_order.quantity - trade_qty
             rest == IF left = 0
                     THEN Tail(orders)
                     ELSE <<[front_order EXCEPT !.quantity = left]>> \o Tail(orders)
         IN  fill_queue_unit_lots(rest, qty - trade_qty, price, taker_id, pushed)
    ELSE [orders |-> orders, qty |-> qty, trades |-> trs]

\* The `while qty > 0 && !orders.is_empty()` loop of match_at_price_level,
\* on the queue of one level.  Returns the queue, the taker's remaining
\* quantity and the trades so far.
RECURSIVE fill_queue(_, _, _, _, _)
fill_queue(orders, qty, price, taker_id, trs) ==
    IF qty > 0 /\ orders # << >>
    THEN LET front_order == Head(orders)
             trade_qty == Min(qty, front_order.quantity)
             pushed == Append(trs, Trade(price, trade_qty, front_order.id, taker_id))
             left == front_order.quantity - trade_qty
             rest == IF left = 0
                     THEN Tail(orders)
                     ELSE <<[front_order EXCEPT !.quantity = left]>> \o Tail(orders)
         IN  fill_queue(rest, qty - trade_qty, price, taker_id, pushed)
    ELSE [orders |-> orders, qty |-> qty, trades |-> trs]

\* The side's map with an emptied level removed, a surviving one stored back.
store_level(book, price_key, orders) ==
    IF orders = << >>
    THEN remove(book, price_key)
    ELSE set_queue(book, find_key(book, price_key)[1], orders)

\* match_at_price_level returning as soon as the taker is filled, before the
\* cleanup of the emptied level.
match_at_price_level_early_return(self, book_side, price, qty, taker_id, trs) ==
    LET price_key == PriceLevel(price, book_side)
        book == IF book_side = Buy THEN self.buy_side ELSE self.sell_side
        found == get(book, price_key)
    IN  IF found = None
        THEN [self |-> self, qty |-> qty, trades |-> trs]
        ELSE LET f == fill_queue(found[1], qty, price, taker_id, trs)
                 after == IF f.qty = 0
                          THEN set_queue(book, find_key(book, price_key)[1], f.orders)
                          ELSE store_level(book, price_key, f.orders)
             IN  [self |-> IF book_side = Buy
                           THEN [self EXCEPT !.buy_side = after]
                           ELSE [self EXCEPT !.sell_side = after],
                  qty |-> f.qty,
                  trades |-> f.trades]

\* OrderBook::match_at_price_level
match_at_price_level(self, book_side, price, qty, taker_id, trs) ==
    LET price_key == PriceLevel(price, book_side)
        book == IF book_side = Buy THEN self.buy_side ELSE self.sell_side
        found == get(book, price_key)
    IN  IF found = None
        THEN [self |-> self, qty |-> qty, trades |-> trs]
        ELSE LET f == fill_queue(found[1], qty, price, taker_id, trs)
                 after == store_level(book, price_key, f.orders)
             IN  [self |-> IF book_side = Buy
                           THEN [self EXCEPT !.buy_side = after]
                           ELSE [self EXCEPT !.sell_side = after],
                  qty |-> f.qty,
                  trades |-> f.trades]

\* The Buy arm without a crossing test: any resting Sell is matched.
buy_crosses_always(price, best_price) == TRUE

\* The Buy arm crossing only at a strictly higher price.
buy_crosses_strict(price, best_price) == price > best_price

\* The Buy arm testing with the Sell arm's comparison.
buy_crosses_copied(price, best_price) == price <= best_price

\* The crossing test of the Buy arm: `price >= best_price`.
buy_crosses(price, best_price) == price >= best_price

\* The Sell arm testing with the Buy arm's comparison.
sell_crosses_copied(price, best_price) == price >= best_price

\* The crossing test of the Sell arm: `price <= best_price`.
sell_crosses(price, best_price) == price <= best_price

\* The Buy arm with every trade priced at the taker's price.
RECURSIVE match_buy_taker_price(_, _, _, _, _)
match_buy_taker_price(self, price, quantity, id, trs) ==
    LET first == first_key_value(self.sell_side)
    IN  IF quantity > 0 /\ first # None /\ buy_crosses(price, first[1][1].price)
        THEN LET m == match_at_price_level(self, Sell, first[1][1].price,
                                           quantity, id, trs)
             IN  match_buy_taker_price(m.self, price, m.qty, id, m.trades)
        ELSE [self |-> self, qty |-> quantity,
              trades |-> [i \in DOMAIN trs |-> [trs[i] EXCEPT !.price = price]]]

\* The Side::Buy arm of place_order: match against the best sell levels.
RECURSIVE match_buy(_, _, _, _, _)
match_buy(self, price, quantity, id, trs) ==
    LET first == first_key_value(self.sell_side)
    IN  IF quantity > 0 /\ first # None /\ buy_crosses(price, first[1][1].price)
        THEN LET m == match_at_price_level(self, Sell, first[1][1].price,
                                           quantity, id, trs)
             IN  match_buy(m.self, price, m.qty, id, m.trades)
        ELSE [self |-> self, qty |-> quantity, trades |-> trs]

\* The Side::Sell arm of place_order: match against the best buy levels.
RECURSIVE match_sell(_, _, _, _, _)
match_sell(self, price, quantity, id, trs) ==
    LET first == first_key_value(self.buy_side)
    IN  IF quantity > 0 /\ first # None /\ sell_crosses(price, first[1][1].price)
        THEN LET m == match_at_price_level(self, Buy, first[1][1].price,
                                           quantity, id, trs)
             IN  match_sell(m.self, price, m.qty, id, m.trades)
        ELSE [self |-> self, qty |-> quantity, trades |-> trs]

\* add_to_book building the key from the other side.
add_to_book_other_side_key(self, side, order) ==
    LET price_key == PriceLevel(order.price, IF side = Buy THEN Sell ELSE Buy)
    IN  IF side = Buy
        THEN [self EXCEPT !.buy_side =
                  entry_or_default_push_back(self.buy_side, price_key, order)]
        ELSE [self EXCEPT !.sell_side =
                  entry_or_default_push_back(self.sell_side, price_key, order)]

\* OrderBook::add_to_book
add_to_book(self, side, order) ==
    LET price_key == PriceLevel(order.price, side)
    IN  IF side = Buy
        THEN [self EXCEPT !.buy_side =
                  entry_or_default_push_back(self.buy_side, price_key, order)]
        ELSE [self EXCEPT !.sell_side =
                  entry_or_default_push_back(self.sell_side, price_key, order)]

\* The remainder going to the book whatever is left of it.
rests_nonnegative(remaining) == remaining >= 0

\* `if incoming_order.quantity > 0`: whether the remainder goes to the book.
rests(remaining) == remaining > 0

\* place_order resting the order as submitted, its quantity not decremented.
place_order_full_remainder(self, side, price, quantity, id, now) ==
    LET incoming_order == Order(id, price, quantity, now)
        m == IF side = Buy
             THEN match_buy(self, price, quantity, id, << >>)
             ELSE match_sell(self, price, quantity, id, << >>)
    IN  [self |-> IF rests(m.qty) THEN add_to_book(m.self, side, incoming_order) ELSE m.self,
         trades |-> m.trades]

\* OrderBook::place_order: the book afterwards and the trades returned.
place_order(self, side, price, quantity, id, now) ==
    LET incoming_order == Order(id, price, quantity, now)
        m == IF side = Buy
             THEN match_buy(self, price, quantity, id, << >>)
             ELSE match_sell(self, price, quantity, id, << >>)
        remainder == [incoming_order EXCEPT !.quantity = m.qty]
    IN  [self |-> IF rests(m.qty) THEN add_to_book(m.self, side, remainder) ELSE m.self,
         trades |-> m.trades]

RECURSIVE SumQty(_)
\* The mathematical sum of the quantities of a queue.
SumQty(orders) ==
    IF orders = << >> THEN 0 ELSE Head(orders).quantity + SumQty(Tail(orders))

\* `orders.iter().map(|o| o.quantity).sum()` in u64.  With overflow checks
\* (a debug build) a sum past U64Max panics; without them it wraps.
sum_u64(orders, overflow_checks) ==
    IF SumQty(orders) <= U64Max
    THEN Some(SumQty(orders))
    ELSE IF overflow_checks THEN None ELSE Some(SumQty(orders) % (U64Max + 1))

Panic == "panic"

\* OrderBook::best_buy / best_sell on one side's map; Panic when the sum
\* panics.
best_of(map, overflow_checks) ==
    LET first == first_key_value(map)
    IN  IF first = None
        THEN None
        ELSE LET total_qty == sum_u64(first[1][2], overflow_checks)
             IN  IF total_qty = None
                 THEN Panic
                 ELSE Some(<<first[1][1].price, total_qty[1]>>)

\* OrderBook::best_buy
best_buy(self, overflow_checks) == best_of(self.buy_side, overflow_checks)

\* OrderBook::best_sell
best_sell(self, overflow_checks) == best_of(self.sell_side, overflow_checks)

\* OrderBook::get_orders
get_orders(self, price_key) ==
    IF price_key.side = Buy
    THEN get(self.buy_side, price_key)
    ELSE get(self.sell_side, price_key)

\* OrderBook::is_buy_side_empty
is_buy_side_empty(self) == DOMAIN self.buy_side = {}

\* OrderBook::is_sell_side_empty
is_sell_side_empty(self) == DOMAIN self.sell_side = {}

---------------------------------------------------------------------------
(* The state machine.                                                      *)

\* The book as the code sees it.
book == OrderBook(buy_side, sell_side)

RECURSIVE SumLen(_, _)
SumLen(map, keys) ==
    IF keys = {} THEN 0
    ELSE LET k == CHOOSE k \in keys : TRUE
         IN  Len(map[k]) + SumLen(map, keys \ {k})

\* The number of orders resting in the book.
Resting(self) ==
    SumLen(self.buy_side, DOMAIN self.buy_side)
    + SumLen(self.sell_side, DOMAIN self.sell_side)

Call(side, price, quantity, id, now) ==
    [side |-> side, price |-> price, quantity |-> quantity, id |-> id, now |-> now]

Init ==
    /\ buy_side = Default.buy_side
    /\ sell_side = Default.sell_side
    /\ call = None
    /\ trades = << >>
    /\ history = << >>

\* One place_order call, start to end.
PlaceOrder(side, price, quantity, id, now) ==
    LET r == place_order(book, side, price, quantity, id, now)
    IN  /\ Resting(r.self) <= MaxResting
        /\ buy_side' = r.self.buy_side
        /\ sell_side' = r.self.sell_side
        /\ call' = Some(Call(side, price, quantity, id, now))
        /\ trades' = r.trades

Submit ==
    \E side \in Side, price \in Prices, quantity \in Quantities,
       id \in Ids, now \in Times :
        /\ PlaceOrder(side, price, quantity, id, now)
        /\ UNCHANGED history

Next == Submit

Spec == Init /\ [][Next]_vars

---------------------------------------------------------------------------
(* The scenario of tests/integration_test.rs::test_market_cross, explored  *)
(* with its three calls' arguments in every combination and order.         *)

MarketCross ==
    << Call(Sell, 99, 10, 101, 0), Call(Buy, 100, 11, 102, 0), Call(Sell, 98, 10, 2, 0) >>

Field(calls, f) == {calls[i][f] : i \in DOMAIN calls}

SubmitScenario ==
    /\ Len(history) < Len(MarketCross)
    /\ \E side \in Side, price \in Field(MarketCross, "price"),
          quantity \in Field(MarketCross, "quantity"),
          id \in Field(MarketCross, "id"), now \in Field(MarketCross, "now") :
            /\ PlaceOrder(side, price, quantity, id, now)
            /\ history' = Append(history, Call(side, price, quantity, id, now))

NextScenario == SubmitScenario

SpecScenario == Init /\ [][NextScenario]_vars

---------------------------------------------------------------------------
(* Vocabulary of the properties.  In an action formula the unprimed book   *)
(* is the book a call found and the primed one the book it left.           *)

\* The map a taker of `side` trades against, and the one it rests in.
Opposite(self, side) == IF side = Buy THEN self.sell_side ELSE self.buy_side
Own(self, side) == IF side = Buy THEN self.buy_side ELSE self.sell_side
OppositeSide(side) == IF side = Buy THEN Sell ELSE Buy

\* p is a strictly better opposite price than q for a taker of `side`.
Better(side, p, q) == IF side = Buy THEN p < q ELSE p > q

RECURSIVE SumTradeQty(_)
SumTradeQty(trs) ==
    IF trs = << >> THEN 0 ELSE Head(trs).quantity + SumTradeQty(Tail(trs))

RECURSIVE TradesAt(_, _)
\* The trades of trs made at price p, in order.
TradesAt(trs, p) ==
    IF trs = << >> THEN << >>
    ELSE IF Head(trs).price = p
         THEN <<Head(trs)>> \o TradesAt(Tail(trs), p)
         ELSE TradesAt(Tail(trs), p)

RECURSIVE TotalQty(_, _)
\* The quantity resting in a map, over the keys given.
TotalQty(map, keys) ==
    IF keys = {} THEN 0
    ELSE LET k == CHOOSE k \in keys : TRUE
         IN  SumQty(map[k]) + TotalQty(map, keys \ {k})

\* The queue at a key, empty when get_orders finds none.
QueueAt(self, key) ==
    LET q == get_orders(self, key) IN IF q = None THEN << >> ELSE q[1]

\* The book a call left.
book_after == OrderBook(buy_side', sell_side')

---------------------------------------------------------------------------
\* C1: price priority.  Every trade of a place_order call is made at a
\* level of the opposite side, and only after every strictly better
\* opposite level has been drained in full by the trades before it; so the
\* trade prices never get better along the returned sequence
\* (non-decreasing for a Buy taker, non-increasing for a Sell taker).
PricePriority ==
    [][LET c == call'[1]
           opp == Opposite(book, c.side)
       IN  \A i \in 1..Len(trades') :
             /\ \E k \in DOMAIN opp : k.price = trades'[i].price
             /\ \A k \in DOMAIN opp :
                   Better(c.side, k.price, trades'[i].price) =>
                       /\ SumTradeQty(TradesAt(SubSeq(trades', 1, i - 1), k.price))
                            = SumQty(opp[k])
                       /\ get_orders(book_after, k) = None
             /\ i > 1 => ~Better(c.side, trades'[i].price, trades'[i - 1].price)
      ]_vars

\* A call swept two levels: its trades are at two different prices.
PricePriorityWitness ==
    /\ Len(trades) = 2
    /\ trades[1].price # trades[2].price

\* C2: time priority.  At every level of the opposite side the trades name
\* the makers in the order of the queue, each maker only after everyone in
\* front of it was filled in full; the survivors are the back of the old
\* queue in the old order (only the front one with less quantity); and on
\* the taker's own side every old queue is a prefix of the new one.
TimePriority ==
    [][LET c == call'[1]
           opp == Opposite(book, c.side)
           own == Own(book, c.side)
       IN  /\ \A k \in DOMAIN opp :
                LET old == opp[k]
                    new == QueueAt(book_after, k)
                    t == TradesAt(trades', k.price)
                    gone == Len(old) - Len(new)
                IN  /\ Len(t) <= Len(old)
                    /\ \A j \in 1..Len(t) :
                          /\ t[j].maker_id = old[j].id
                          /\ \A a \in 1..(j - 1) : t[a].quantity = old[a].quantity
                    /\ gone >= 0
                    /\ \A j \in 1..Len(new) :
                          /\ new[j].id = old[gone + j].id
                          /\ new[j].price = old[gone + j].price
                          /\ new[j].timestamp = old[gone + j].timestamp
                          /\ j > 1 => new[j] = old[gone + j]
           /\ \A k \in DOMAIN own :
                LET new == QueueAt(book_after, k)
                IN  /\ Len(new) >= Len(own[k])
                    /\ SubSeq(new, 1, Len(own[k])) = own[k]
      ]_vars

\* The older of two makers at one price was filled and the younger one is
\* what get_orders still lists.
TimePriorityWitness ==
    /\ Len(trades) = 1
    /\ LET q == get_orders(book, PriceLevel(trades[1].price, OppositeSide(call[1].side)))
       IN  /\ q # None
           /\ Len(q[1]) = 1
           /\ q[1][1].id # trades[1].maker_id

\* C3: conservation.  The quantities of the returned trades plus the
\* quantity the call adds to its own side equal the submitted quantity, and
\* the opposite side loses exactly the traded quantity.
Conservation ==
    [][LET c == call'[1]
           own == Own(book, c.side)
           own_after == Own(book_after, c.side)
           opp == Opposite(book, c.side)
           opp_after == Opposite(book_after, c.side)
           leftover == TotalQty(own_after, DOMAIN own_after) - TotalQty(own, DOMAIN own)
       IN  /\ SumTradeQty(trades') + leftover = c.quantity
           /\ TotalQty(opp, DOMAIN opp) - TotalQty(opp_after, DOMAIN opp_after)
                = SumTradeQty(trades')
      ]_vars

\* A taker was filled in part and its remainder rests.
ConservationWitness ==
    /\ trades # << >>
    /\ SumTradeQty(trades) < call[1].quantity
    /\ get_orders(book, PriceLevel(call[1].price, call[1].side)) # None

\* Every key a call of Spec can name.
AllKeys == {PriceLevel(p, sd) : p \in Prices, sd \in Side}

\* C4: no dangling levels.  Every key of either map has a non-empty queue;
\* a level whose whole quantity a call traded away is gone when the call
\* returns, so get_orders finds none; and the emptiness queries answer true
\* exactly when no order rests on the side.
NoDanglingLevels ==
    [][LET c == call'[1]
           opp == Opposite(book, c.side)
       IN  /\ \A k \in DOMAIN buy_side' : buy_side'[k] # << >>
           /\ \A k \in DOMAIN sell_side' : sell_side'[k] # << >>
           /\ \A k \in DOMAIN opp :
                 SumTradeQty(TradesAt(trades', k.price)) = SumQty(opp[k])
                     => get_orders(book_after, k) = None
           /\ is_buy_side_empty(book_after) <=> SumLen(buy_side', DOMAIN buy_side') = 0
           /\ is_sell_side_empty(book_after) <=> SumLen(sell_side', DOMAIN sell_side') = 0
      ]_vars

\* A call traded a whole level away while another level of that side stays.
NoDanglingLevelsWitness ==
    /\ trades # << >>
    /\ LET opp_side == OppositeSide(call[1].side)
       IN  /\ get_orders(book, PriceLevel(trades[1].price, opp_side)) = None
           /\ Opposite(book, call[1].side) # EmptyMap

\* C5: a zero-quantity call returns no trades and leaves both maps, and so
\* every query, as they were, whatever its side, price and id.
ZeroQuantityNoOp ==
    [][call'[1].quantity = 0 =>
          /\ trades' = << >>
          /\ buy_side' = buy_side
          /\ sell_side' = sell_side
          /\ \A oc \in BOOLEAN :
                /\ best_buy(book_after, oc) = best_buy(book, oc)
                /\ best_sell(book_after, oc) = best_sell(book, oc)
          /\ \A k \in AllKeys : get_orders(book_after, k) = get_orders(book, k)
          /\ is_buy_side_empty(book_after) = is_buy_side_empty(book)
          /\ is_sell_side_empty(book_after) = is_sell_side_empty(book)
      ]_vars

\* A zero-quantity Buy at a price that crosses the best resting Sell.
ZeroQuantityNoOpWitness ==
    /\ call # None
    /\ call[1].quantity = 0
    /\ call[1].side = Buy
    /\ ~is_sell_side_empty(book)
    /\ call[1].price >= first_key_value(sell_side)[1][1].price

\* C6: every trade carries the maker's price and id and the taker's id.
\* The n-th trade of a call at a price is with the n-th order of the queue
\* that rested at that price on the opposite side.
TradeCarriesMaker ==
    [][LET c == call'[1]
       IN  \A i \in 1..Len(trades') :
             LET t == trades'[i]
                 q == get_orders(book, PriceLevel(t.price, OppositeSide(c.side)))
                 n == Len(TradesAt(SubSeq(trades', 1, i), t.price))
             IN  /\ q # None
                 /\ n <= Len(q[1])
                 /\ q[1][n].price = t.price
                 /\ q[1][n].id = t.maker_id
                 /\ t.taker_id = c.id
      ]_vars

\* A trade at a price other than the taker's, between two different ids.
TradeCarriesMakerWitness ==
    /\ trades # << >>
    /\ trades[1].price # call[1].price
    /\ trades[1].maker_id # trades[1].taker_id

\* C7: the limit price is respected.  No trade of a Buy taker is above
\* the price it submitted, none of a Sell taker below.
LimitRespected ==
    call # None =>
        \A i \in 1..Len(trades) :
            /\ call[1].side = Buy => trades[i].price <= call[1].price
            /\ call[1].side = Sell => trades[i].price >= call[1].price

\* A taker traded, stopped at its limit and rests while the opposite side
\* still holds a level beyond the limit.
LimitRespectedWitness ==
    /\ trades # << >>
    /\ ~is_buy_side_empty(book)
    /\ ~is_sell_side_empty(book)
    /\ SumTradeQty(trades) < call[1].quantity

\* C8: the remainder rests correctly.  With a remainder (the submitted
\* quantity less the traded one) above 0, the queue at the key (submitted
\* price, own side) is the old queue with one order appended, carrying the
\* submitted id and price and the remainder, and nothing else on the own
\* side changes; with no remainder the own side is untouched.
RemainderRests ==
    [][LET c == call'[1]
           remaining == c.quantity - SumTradeQty(trades')
           key == PriceLevel(c.price, c.side)
           own == Own(book, c.side)
           own_after == Own(book_after, c.side)
       IN  IF remaining > 0
           THEN /\ get_orders(book_after, key)
                     = Some(Append(QueueAt(book, key),
                                   Order(c.id, c.price, remaining, c.now)))
                /\ DOMAIN own_after = DOMAIN own \cup {key}
                /\ \A k \in DOMAIN own : k # key => own_after[k] = own[k]
           ELSE own_after = own
      ]_vars

\* A taker traded and what was left of it rests, last in its queue.
RemainderRestsWitness ==
    /\ trades # << >>
    /\ SumTradeQty(trades) < call[1].quantity
    /\ LET q == get_orders(book, PriceLevel(call[1].price, call[1].side))
       IN  /\ q # None
           /\ q[1][Len(q[1])] = Order(call[1].id, call[1].price,
                                      call[1].quantity - SumTradeQty(trades),
                                      call[1].now)

RestingPrices(map) ==
    UNION {{map[k][i].price : i \in DOMAIN map[k]} : k \in DOMAIN map}

AtPrice(orders, p) == SelectSeq(orders, LAMBDA o : o.price = p)

RECURSIVE QtyAtPrice(_, _, _)
\* The quantity of the orders of price p resting in a map, over the keys given.
QtyAtPrice(map, keys, p) ==
    IF keys = {} THEN 0
    ELSE LET k == CHOOSE k \in keys : TRUE
         IN  SumQty(AtPrice(map[k], p)) + QtyAtPrice(map, keys \ {k}, p)

Highest(ps) == CHOOSE p \in ps : \A q \in ps : q <= p
Lowest(ps) == CHOOSE p \in ps : \A q \in ps : p <= q

\* What C10 says best_buy / best_sell return on a side whose best price is
\* `best`: none without a resting order, else the best price and the sum of
\* all the quantities resting at it.
BestAsStated(map, best) ==
    IF RestingPrices(map) = {}
    THEN None
    ELSE Some(<<best, QtyAtPrice(map, DOMAIN map, best)>>)

\* C10 as stated: in every reachable book best_buy returns none iff no buy
\* order rests and else the highest resting buy price with the sum of the
\* quantities of all the orders resting at it; best_sell the same with the
\* lowest resting sell price.  Whether overflow checks are compiled in or not.
BestPriceAndQuantity ==
    \A oc \in BOOLEAN :
        /\ best_buy(book, oc) = BestAsStated(buy_side, Highest(RestingPrices(buy_side)))
        /\ best_sell(book, oc) = BestAsStated(sell_side, Lowest(RestingPrices(sell_side)))

\* The part of C10 the code keeps: the statement holds of every book in
\* which the quantities at the best level add up to at most U64Max.
BestPriceAndQuantityInRange ==
    \A oc \in BOOLEAN :
        /\ (~is_buy_side_empty(book)
              => SumQty(first_key_value(buy_side)[1][2]) <= U64Max)
              => best_buy(book, oc)
                   = BestAsStated(buy_side, Highest(RestingPrices(buy_side)))
        /\ (~is_sell_side_empty(book)
              => SumQty(first_key_value(sell_side)[1][2]) <= U64Max)
              => best_sell(book, oc)
                   = BestAsStated(sell_side, Lowest(RestingPrices(sell_side)))

\* The orders resting in a map, as a set.
RestingOrders(map) ==
    UNION {{map[k][i] : i \in DOMAIN map[k]} : k \in DOMAIN map}

\* C11 as stated: the operations are total over u64.  In every reachable
\* book neither best_buy nor best_sell fails, the sum either of them adds up
\* stays within the u64 range, and no quantity left by the subtractions of
\* matching, resting or traded, has gone below 0.
TotalOverU64 ==
    /\ \A oc \in BOOLEAN :
          /\ best_buy(book, oc) # Panic
          /\ best_sell(book, oc) # Panic
    /\ ~is_buy_side_empty(book) => SumQty(first_key_value(buy_side)[1][2]) <= U64Max
    /\ ~is_sell_side_empty(book) => SumQty(first_key_value(sell_side)[1][2]) <= U64Max
    /\ \A o \in RestingOrders(buy_side) \cup RestingOrders(sell_side) :
          o.quantity \in 0..U64Max
    /\ \A i \in 1..Len(trades) : trades[i].quantity \in 0..U64Max

\* C12: every resting order has a quantity above 0, in every reachable
\* book: an order filled to 0 is gone when the call returns and none is
\* inserted with quantity 0.
RestingPositive ==
    \A o \in RestingOrders(buy_side) \cup RestingOrders(sell_side) : o.quantity > 0

\* A call filled one maker to 0, which is gone, while orders still rest.
RestingPositiveWitness ==
    /\ trades # << >>
    /\ call[1].quantity = SumTradeQty(trades)
    /\ QueueAt(book, PriceLevel(trades[1].price, OppositeSide(call[1].side))) = << >>
    /\ Resting(book) > 0

\* The taker's price crosses the best price resting on the opposite side.
Crosses(side, price, opp) ==
    /\ RestingPrices(opp) # {}
    /\ IF side = Buy
       THEN price >= Lowest(RestingPrices(opp))
       ELSE price <= Highest(RestingPrices(opp))

\* C13: non-crossing placement.  A call with quantity > 0 that finds the
\* opposite side empty or its best level not crossed returns no trade,
\* leaves the opposite side as it was and rests the order with its full
\* quantity; and whenever a call returns no trade, the opposite side is as
\* it was and every queue of the own side still starts with its old orders.
NonCrossingPlacement ==
    [][LET c == call'[1]
           opp == Opposite(book, c.side)
           own == Own(book, c.side)
           key == PriceLevel(c.price, c.side)
       IN  /\ (c.quantity > 0 /\ ~Crosses(c.side, c.price, opp)) =>
                 /\ trades' = << >>
                 /\ Opposite(book_after, c.side) = opp
                 /\ get_orders(book_after, key)
                      = Some(Append(QueueAt(book, key),
                                    Order(c.id, c.price, c.quantity, c.now)))
           /\ trades' = << >> =>
                 /\ Opposite(book_after, c.side) = opp
                 /\ \A k \in DOMAIN own :
                       LET new == QueueAt(book_after, k)
                       IN  /\ Len(new) >= Len(own[k])
                           /\ SubSeq(new, 1, Len(own[k])) = own[k]
      ]_vars

\* An order was placed short of the best opposite level and rests whole.
NonCrossingPlacementWitness ==
    /\ call # None
    /\ call[1].quantity > 0
    /\ trades = << >>
    /\ Opposite(book, call[1].side) # EmptyMap
    /\ get_orders(book, PriceLevel(call[1].price, call[1].side)) # None

\* A map, a book and a trade sequence with the ids taken out.
EraseOrderIds(map) ==
    [k \in DOMAIN map |-> [i \in DOMAIN map[k] |-> [map[k][i] EXCEPT !.id = 0]]]
EraseBookIds(self) == OrderBook(EraseOrderIds(self.buy_side), EraseOrderIds(self.sell_side))
EraseTradeIds(trs) ==
    [i \in DOMAIN trs |-> [trs[i] EXCEPT !.maker_id = 0, !.taker_id = 0]]

\* C14: matching is independent of the ids.  A call made on the book with
\* every id replaced by 0, with id 0, returns the trades of the real call
\* up to the ids and leaves the real book up to the ids; so any two runs of
\* the same (side, price, quantity) submissions, whatever their ids, agree
\* with the run whose ids are all 0 and hence with each other.  And a
\* crossing taker with the id of the front maker of the best level gets a
\* first trade with maker_id = taker_id.
IdIndependence ==
    [][LET c == call'[1]
           opp == Opposite(book, c.side)
           twin == place_order(EraseBookIds(book), c.side, c.price, c.quantity, 0, c.now)
       IN  /\ EraseTradeIds(twin.trades) = EraseTradeIds(trades')
           /\ EraseBookIds(twin.self) = EraseBookIds(book_after)
           /\ (/\ c.quantity > 0
               /\ Crosses(c.side, c.price, opp)
               /\ first_key_value(opp)[1][2][1].id = c.id) =>
                 /\ trades' # << >>
                 /\ trades'[1].maker_id = c.id
                 /\ trades'[1].taker_id = c.id
      ]_vars

\* A taker traded with a maker of its own id.
IdIndependenceWitness ==
    /\ trades # << >>
    /\ trades[1].maker_id = trades[1].taker_id

MatchingExhaustive ==
    call # None =>
        LET c == call[1]
        IN  \/ SumTradeQty(trades) = c.quantity
            \/ is_buy_side_empty(book) /\ c.side = Sell
            \/ is_sell_side_empty(book) /\ c.side = Buy
            \/ ~Crosses(c.side, c.price, Opposite(book, c.side))

\* A taker emptied the opposite side and its remainder rests.
MatchingExhaustiveWitness ==
    /\ trades # << >>
    /\ SumTradeQty(trades) < call[1].quantity
    /\ Opposite(book, call[1].side) = EmptyMap
    /\ get_orders(book, PriceLevel(call[1].price, call[1].side)) # None

\* C17: each fill is the minimum of what the taker still wants and what the
\* front maker still has, and so above 0.  The n-th trade at a price is with
\* the n-th order of the old queue there; every trade but the last takes its
\* maker whole, and that maker is gone from the queue; the maker of the last
\* trade, when it keeps some quantity, is the front of its queue with the
\* fill taken off and the orders behind it as they were.
FillIsMinimum ==
    [][LET c == call'[1]
           opp_side == OppositeSide(c.side)
       IN  \A i \in 1..Len(trades') :
             LET t == trades'[i]
                 key == PriceLevel(t.price, opp_side)
                 old == QueueAt(book, key)
                 new == QueueAt(book_after, key)
                 n == Len(TradesAt(SubSeq(trades', 1, i), t.price))
                 wanted == c.quantity - SumTradeQty(SubSeq(trades', 1, i - 1))
                 behind == SubSeq(old, n + 1, Len(old))
             IN  /\ n <= Len(old)
                 /\ t.quantity = Min(wanted, old[n].quantity)
                 /\ t.quantity > 0
                 /\ i < Len(trades') =>
                       /\ t.quantity = old[n].quantity
                       /\ Len(new) <= Len(old) - n
                 /\ i = Len(trades') =>
                       IF t.quantity = old[n].quantity
                       THEN new = behind
                       ELSE new = <<[old[n] EXCEPT
                                       !.quantity = old[n].quantity - t.quantity]>>
                                  \o behind
      ]_vars

\* A call took the first maker of a level whole and part of the second,
\* which stays in front.
FillIsMinimumWitness ==
    /\ Len(trades) = 2
    /\ trades[1].price = trades[2].price
    /\ LET q == QueueAt(book, PriceLevel(trades[2].price, OppositeSide(call[1].side)))
       IN  /\ q # << >>
           /\ q[1].id = trades[2].maker_id

\* C18: own-side frame.  A call changes the map of its own side by at most
\* one order appended to the queue at the submitted price: no other key
\* comes or goes, every other queue is as it was, and the queue at the
\* submitted price is the old one or the old one with one order behind it.
OwnSideFrame ==
    [][LET c == call'[1]
           own == Own(book, c.side)
           own_after == Own(book_after, c.side)
           key == PriceLevel(c.price, c.side)
       IN  /\ DOMAIN own \subseteq DOMAIN own_after
           /\ DOMAIN own_after \subseteq DOMAIN own \cup {key}
           /\ \A k \in DOMAIN own : k # key => own_after[k] = own[k]
           /\ LET old == QueueAt(book, key)
                  new == QueueAt(book_after, key)
              IN  \/ new = old
                  \/ Len(new) = Len(old) + 1 /\ SubSeq(new, 1, Len(old)) = old
      ]_vars

\* A call traded while an older order of its own side rests at another price.
OwnSideFrameWitness ==
    /\ trades # << >>
    /\ \E k \in DOMAIN Own(book, call[1].side) : k.price # call[1].price

\* C19: key consistency.  Every key of the buy-side map is a Buy key and
\* every key of the sell-side map a Sell key, no two keys of a map have the
\* same price, and every order lies in a queue whose key has the order's
\* own price; the order a call rests is on the side it was submitted with.
KeyConsistency ==
    /\ \A k \in DOMAIN buy_side :
          /\ k.side = Buy
          /\ \A i \in DOMAIN buy_side[k] : buy_side[k][i].price = k.price
          /\ \A j \in DOMAIN buy_side : j.price = k.price => j = k
    /\ \A k \in DOMAIN sell_side :
          /\ k.side = Sell
          /\ \A i \in DOMAIN sell_side[k] : sell_side[k][i].price = k.price
          /\ \A j \in DOMAIN sell_side : j.price = k.price => j = k
    /\ (call # None /\ SumTradeQty(trades) < call[1].quantity) =>
          LET q == get(Own(book, call[1].side), PriceLevel(call[1].price, call[1].side))
          IN  /\ q # None
              /\ q[1][Len(q[1])].id = call[1].id

\* Orders rest on both sides after a call that brought a quantity.
KeyConsistencyWitness ==
    /\ buy_side # EmptyMap
    /\ sell_side # EmptyMap
    /\ call[1].quantity > 0

\* C20: termination.  A call returns at most as many trades as orders
\* rested on the opposite side when it began: every trade removes its
\* maker, but for the last, which may instead fill the taker.
TradesBounded ==
    [][LET c == call'[1]
           opp == Opposite(book, c.side)
           opp_after == Opposite(book_after, c.side)
           removed == SumLen(opp, DOMAIN opp) - SumLen(opp_after, DOMAIN opp_after)
       IN  /\ Len(trades') <= SumLen(opp, DOMAIN opp)
           /\ \/ Len(trades') = removed
              \/ /\ Len(trades') = removed + 1
                 /\ SumTradeQty(trades') = c.quantity
      ]_vars

\* A call traded with every order of the opposite side.
TradesBoundedWitness ==
    /\ Len(trades) = 2
    /\ Opposite(book, call[1].side) = EmptyMap

===========================================================================
